---- MODULE Spec2Model ----
(***************************************************************************)
(* GeminiJoust (src/src/App.js): matchmaking on a topic, the turn-taking   *)
(* debate room and its word budgets, as a state machine over the shared    *)
(* document store (topics, debateRooms, messages) and each client's React  *)
(* state (active room id, the room snapshot it renders, a running          *)
(* signalInterest transaction, a submit that awaits the moderation).       *)
(***************************************************************************)
EXTENDS Integers, Sequences, FiniteSets, TLC

\* ------------------------------------------------------------------ bounds

\* Room ids the store's id generator hands out (doc(collection(...)).id).
MaxRoomIds == 2
\* Attempts of one runTransaction before the store client gives up.
MaxAttempts == 2
\* Documents per messages collection, whole program.
MaxMsgs == 2
\* Documents per messages collection, two rooms in depth.
MaxCrossMsgs == 5
\* Documents per messages collection when the moderator gives every reply.
MaxModerationMsgs == 3
\* Characters of a string given to countWords.
MaxLen == 4
\* Rooms and documents per messages collection, one debate played to its end.
MaxDebateRooms == 1
MaxDebateMsgs == 9

\* --------------------------------------------------------------- constants

MAX_WORDS_PER_REPLY == 500
MAX_WORDS_PER_DEBATE_TOTAL == 2000

Users == {"A", "B", "C"}
\* The two clients of the debate played in depth.
DebateUsers == {"A", "B"}
\* "T1" is a topic document of the store; no document has the id "T2".
TopicIds == {"T1", "T2"}
RoomIds == 1..MaxRoomIds
NoUser == "none"

\* ------------------------------------------------------------------- texts

\* A text is a sequence of characters.
IsSpace(c) == c \in {" ", "\t", "\n"}

\* n words "a" separated by single blanks.
Words(n) == [i \in 1..(IF n = 0 THEN 0 ELSE 2 * n - 1) |-> IF i % 2 = 1 THEN "a" ELSE " "]

\* The texts a user types into the message box, by name.
TextOf ==
    [ blank   |-> <<" ", " ">>,
      one     |-> <<" ", "a", "\n">>,
      ask     |-> <<"@", "G", "e", "m", "i", "n", "i", " ", "a">>,
      mention |-> <<"@", "g", "e", "m", "i", "n", "i", " ">>,
      w500    |-> Words(MAX_WORDS_PER_REPLY),
      w501    |-> Words(MAX_WORDS_PER_REPLY + 1) ]
TextKeys == DOMAIN TextOf

\* What callGeminiAPI returns, by name: the sentinel, the sentinel in another case
\* with whitespace around it, an analysis or answer, the "Error: ..." string of
\* its three failure branches, and an empty text.
SENTINEL ==
    <<"N", "O", "_", "F", "A", "L", "L", "A", "C", "I", "E", "S", "_",
      "D", "E", "T", "E", "C", "T", "E", "D">>
ReplyOf ==
    [ sentinel |-> SENTINEL,
      padded   |-> <<" ", "n", "o", "_", "f", "a", "l", "l", "a", "c", "i", "e", "s", "_",
                     "d", "e", "t", "e", "c", "t", "e", "d", "\n">>,
      answer   |-> <<"A", "d", " ", "h", "o", "c">>,
      failure  |-> <<"E", "r", "r", "o", "r", ":">>,
      empty    |-> <<>> ]
ReplyKeys == DOMAIN ReplyOf

Letters ==
    << <<"a", "A">>, <<"c", "C">>, <<"d", "D">>, <<"e", "E">>, <<"f", "F">>, <<"g", "G">>,
       <<"h", "H">>, <<"i", "I">>, <<"l", "L">>, <<"m", "M">>, <<"n", "N">>, <<"o", "O">>,
       <<"r", "R">>, <<"s", "S">>, <<"t", "T">> >>
UpperChar(c) ==
    IF \E i \in 1..Len(Letters) : Letters[i][1] = c
    THEN Letters[CHOOSE i \in 1..Len(Letters) : Letters[i][1] = c][2] ELSE c
LowerChar(c) ==
    IF \E i \in 1..Len(Letters) : Letters[i][2] = c
    THEN Letters[CHOOSE i \in 1..Len(Letters) : Letters[i][2] = c][1] ELSE c
\* String.prototype.toUpperCase, toLowerCase
toUpperCase(s) == [i \in 1..Len(s) |-> UpperChar(s[i])]
toLowerCase(s) == [i \in 1..Len(s) |-> LowerChar(s[i])]

MENTION == <<"@", "g", "e", "m", "i", "n", "i">>
\* String.prototype.startsWith
startsWith(s, prefix) == Len(s) >= Len(prefix) /\ SubSeq(s, 1, Len(prefix)) = prefix
\* String.prototype.substring(from)
substring(s, from) == SubSeq(s, from + 1, Len(s))

\* The positions 1..Len(s), in order.
Positions(s) == [i \in 1..Len(s) |-> i]

\* String.prototype.trim
Trim(s) ==
    LET NonSpace(i) == ~IsSpace(s[i])
        keep == SelectSeq(Positions(s), NonSpace)
    IN  IF keep = <<>> THEN <<>> ELSE SubSeq(s, keep[1], keep[Len(keep)])

\* String.prototype.split(/\s+/): the pieces between the whitespace runs, an
\* empty piece before a leading run and after a trailing one, [""] for "".
Split(s) ==
    LET n == Len(s)
        IsStart(i) == ~IsSpace(s[i]) /\ (i = 1 \/ IsSpace(s[i - 1]))
        IsEnd(i)   == ~IsSpace(s[i]) /\ (i = n \/ IsSpace(s[i + 1]))
        starts == SelectSeq(Positions(s), IsStart)
        ends   == SelectSeq(Positions(s), IsEnd)
        pieces == [k \in 1..Len(starts) |-> SubSeq(s, starts[k], ends[k])]
        lead   == IF n > 0 /\ IsSpace(s[1]) THEN << <<>> >> ELSE <<>>
        trail  == IF n > 0 /\ IsSpace(s[n]) THEN << <<>> >> ELSE <<>>
    IN  IF n = 0 THEN << <<>> >> ELSE lead \o pieces \o trail

Truthy(piece) == piece # <<>>

\* countWords without filter(Boolean).
countWordsUnfiltered(str) ==
    IF str = <<>> THEN 0
    ELSE Len(Split(Trim(str)))

countWords(str) ==
    IF str = <<>> THEN 0
    ELSE Len(SelectSeq(Split(Trim(str)), Truthy))

\* The values countWords is called with: the strings of at most MaxLen
\* characters over Alphabet, and values that are not strings.
Alphabet == {" ", "\t", "\n", "a", "b"}
Strings == UNION {[1..n -> Alphabet] : n \in 0..MaxLen}
NonStrings == {"undefined", "null", "number", "object"}
Inputs ==
    {[type |-> "string", chars |-> c] : c \in Strings}
        \cup {[type |-> t, chars |-> <<>>] : t \in NonStrings}

\* countWords with its test typeof str !== 'string'.
countWordsOf(value) ==
    IF value.type # "string" THEN 0 ELSE countWords(value.chars)

\* countWords of each text of the table.
WordsIn == [k \in TextKeys |-> countWords(TextOf[k])]

\* text.trim() is not the empty string.
TrimsToText == [k \in TextKeys |-> Trim(TextOf[k]) # <<>>]

\* text.trim().toLowerCase().startsWith('@gemini')
IsMention == [k \in TextKeys |-> startsWith(toLowerCase(Trim(TextOf[k])), MENTION)]

\* text.trim().substring('@gemini'.length).trim() is not the empty string.
HasQuestion == [k \in TextKeys |-> Trim(substring(Trim(TextOf[k]), Len(MENTION))) # <<>>]

\* The test of the reply compared as returned, without trim and toUpperCase.
IsFallacyExact == [r \in ReplyKeys |-> ReplyOf[r] # <<>> /\ ReplyOf[r] # SENTINEL]

\* fallacyResponse && fallacyResponse.trim().toUpperCase() !== 'NO_FALLACIES_DETECTED'
IsFallacy == [r \in ReplyKeys |-> ReplyOf[r] # <<>> /\ toUpperCase(Trim(ReplyOf[r])) # SENTINEL]

\* ------------------------------------------------------------------- state

VARIABLES
    topics,             \* store: topic id -> topic document
    rooms,              \* store: room id -> debateRooms document
    messages,           \* store: room id -> its messages, in commit order
    nextRoomId,         \* the next id doc(collection(db, debateRooms)) generates
    tx,                 \* client: the running handleSignalInterest of each user
    joinError,          \* client: what handleSignalInterest last gave setError
    activeDebateRoomId, \* client: App's activeDebateRoomId (0 is null)
    debateRoom,         \* client: DebateRoomView's debateRoom state
    sending,            \* client: the handleSendMessage that awaits the moderation
    countWordsArg,      \* the value countWords was called with
    countWordsResult    \* what the call returned

vars ==
    <<topics, rooms, messages, nextRoomId, tx, joinError, activeDebateRoomId, debateRoom,
      sending, countWordsArg, countWordsResult>>
store == <<topics, rooms, messages>>
call == <<countWordsArg, countWordsResult>>

\* seq.find(uid => uid !== u): the first element that is not u, undefined when
\* there is none.
FindOther(seq, u) ==
    LET NotMe(uid) == uid # u
        hits == SelectSeq(seq, NotMe)
    IN  IF hits = <<>> THEN NoUser ELSE hits[1]

Includes(seq, e) == \E i \in 1..Len(seq) : seq[i] = e

\* arrayRemove: every occurrence of the given elements leaves the array.
arrayRemove(seq, gone) == LET Stays(e) == e \notin gone IN SelectSeq(seq, Stays)

\* arrayUnion: the element is appended unless the array holds it.
arrayUnion(seq, e) == IF Includes(seq, e) THEN seq ELSE Append(seq, e)

NoTopic == [exists |-> FALSE, interestedUsers |-> <<>>]
NewTopic == [exists |-> TRUE, interestedUsers |-> <<>>]

NoRoom ==
    [exists |-> FALSE, topicId |-> "", participants |-> <<>>,
     participantInfo |-> <<>>, status |-> "", turn |-> NoUser]

\* The debateRoomData both pairing branches build.
debateRoomData(topicId, u, partner, turn) ==
    [exists |-> TRUE, topicId |-> topicId, participants |-> <<u, partner>>,
     participantInfo |-> [p \in {u, partner} |-> [wordsUsed |-> 0, hasExited |-> FALSE]],
     status |-> "active", turn |-> turn]

\* DebateRoomView's debateRoom: null, or {id: docSnap.id, ...docSnap.data()}.
NoView == [id |-> 0, data |-> NoRoom]

\* isSending is false; otherwise the room and text of the message whose moderation
\* the handler awaits.
NotSending == [stage |-> "idle", room |-> 0, text |-> ""]

\* countWords has not been called.
NoCall == [type |-> "none", chars |-> <<>>]

IdleTx ==
    [pc |-> "idle", topic |-> "", read |-> NoTopic, plan |-> "none", partner |-> NoUser,
     room |-> 0, turn |-> NoUser, stale |-> FALSE, attempts |-> 0]

Init ==
    /\ topics = [t \in TopicIds |-> IF t = "T1" THEN NewTopic ELSE NoTopic]
    /\ rooms = [r \in RoomIds |-> NoRoom]
    /\ messages = [r \in RoomIds |-> <<>>]
    /\ nextRoomId = 1
    /\ tx = [u \in Users |-> IdleTx]
    /\ joinError = [u \in Users |-> "none"]
    /\ activeDebateRoomId = [u \in Users |-> 0]
    /\ debateRoom = [u \in Users |-> NoView]
    /\ sending = [u \in Users |-> NotSending]
    /\ countWordsArg = NoCall
    /\ countWordsResult = 0

\* ------------------------------------------------------------- matchmaking

\* handleSignalInterest up to transaction.get: the click on a mounted TopicItem
\* (isJoining is false) and the store's read of the topic document.
SignalInterest(u, t) ==
    /\ tx[u].pc = "idle"
    /\ activeDebateRoomId[u] = 0
    /\ tx' = [tx EXCEPT ![u] = [IdleTx EXCEPT !.pc = "body", !.topic = t,
                                              !.read = topics[t], !.attempts = 1]]
    /\ joinError' = [joinError EXCEPT ![u] = "none"]
    /\ UNCHANGED <<call, store, nextRoomId, activeDebateRoomId, debateRoom, sending>>

\* PlanOf without the arrayRemove of the partner in the second branch.
PlanOfKeepsPartner(u, interestedUsers) ==
    LET waitingUser == FindOther(interestedUsers, u)
    IN  IF Includes(interestedUsers, u)
        THEN IF waitingUser # NoUser
             THEN [plan |-> "pair", partner |-> waitingUser, gone |-> {u, waitingUser}]
             ELSE [plan |-> "noop", partner |-> NoUser, gone |-> {}]
        ELSE IF Len(interestedUsers) > 0
             THEN IF interestedUsers[1] = u
                  THEN [plan |-> "noop", partner |-> NoUser, gone |-> {}]
                  ELSE [plan |-> "pair", partner |-> interestedUsers[1], gone |-> {}]
             ELSE [plan |-> "wait", partner |-> NoUser, gone |-> {}]

\* PlanOf without the test interestedUsers.includes(user.uid) and without the
\* test partnerId === user.uid: whoever waits first is the partner.
PlanOfPairsFirst(u, interestedUsers) ==
    IF Len(interestedUsers) > 0
    THEN [plan |-> "pair", partner |-> interestedUsers[1],
          gone |-> {interestedUsers[1]}]
    ELSE [plan |-> "wait", partner |-> NoUser, gone |-> {}]

\* What the transaction body decides on the topic document it read.
PlanOf(u, interestedUsers) ==
    LET waitingUser == FindOther(interestedUsers, u)
    IN  IF Includes(interestedUsers, u)
        THEN IF waitingUser # NoUser
             THEN [plan |-> "pair", partner |-> waitingUser, gone |-> {u, waitingUser}]
             ELSE [plan |-> "noop", partner |-> NoUser, gone |-> {}]
        ELSE IF Len(interestedUsers) > 0
             THEN IF interestedUsers[1] = u
                  THEN [plan |-> "noop", partner |-> NoUser, gone |-> {}]
                  ELSE [plan |-> "pair", partner |-> interestedUsers[1],
                        gone |-> {interestedUsers[1]}]
             ELSE [plan |-> "wait", partner |-> NoUser, gone |-> {}]

\* handleJoinDebate
handleJoinDebate(u, roomId) ==
    activeDebateRoomId' = [activeDebateRoomId EXCEPT ![u] = roomId]

\* TxBody without the topicDoc.exists() test: a missing document is taken for
\* a topic nobody waits on.
TxBodyNoExistsTest(u, maxRooms) ==
    /\ tx[u].pc = "body"
    /\ LET p == PlanOf(u, tx[u].read.interestedUsers)
       IN  IF p.plan = "pair"
           THEN /\ nextRoomId <= maxRooms
                /\ \E turn \in {u, p.partner} :
                       tx' = [tx EXCEPT ![u].pc = "commit", ![u].plan = "pair",
                                        ![u].partner = p.partner,
                                        ![u].room = nextRoomId, ![u].turn = turn]
                /\ nextRoomId' = nextRoomId + 1
                /\ handleJoinDebate(u, nextRoomId)
                /\ UNCHANGED <<call, store, joinError, debateRoom, sending>>
           ELSE /\ tx' = [tx EXCEPT ![u].pc = "commit", ![u].plan = p.plan]
                /\ UNCHANGED <<call, store, nextRoomId, joinError, activeDebateRoomId,
                               debateRoom, sending>>

\* The body of the runTransaction callback on the document read. A missing topic
\* throws, which ends the handler in its catch. A pairing generates the room id,
\* draws the turn and schedules onJoinDebate with a zero delay: the navigation is
\* taken with the body, before the commit is known.
TxBody(u, maxRooms) ==
    /\ tx[u].pc = "body"
    /\ IF ~tx[u].read.exists
       THEN /\ tx' = [tx EXCEPT ![u] = IdleTx]
            /\ joinError' = [joinError EXCEPT ![u] = "not_found"]
            /\ UNCHANGED <<call, store, nextRoomId, activeDebateRoomId, debateRoom, sending>>
       ELSE LET p == PlanOf(u, tx[u].read.interestedUsers)
            IN  IF p.plan = "pair"
                THEN /\ nextRoomId <= maxRooms
                     /\ \E turn \in {u, p.partner} :
                            tx' = [tx EXCEPT ![u].pc = "commit", ![u].plan = "pair",
                                             ![u].partner = p.partner,
                                             ![u].room = nextRoomId, ![u].turn = turn]
                     /\ nextRoomId' = nextRoomId + 1
                     /\ handleJoinDebate(u, nextRoomId)
                     /\ UNCHANGED <<call, store, joinError, debateRoom, sending>>
                ELSE /\ tx' = [tx EXCEPT ![u].pc = "commit", ![u].plan = p.plan]
                     /\ UNCHANGED <<call, store, nextRoomId, joinError, activeDebateRoomId,
                                    debateRoom, sending>>

\* A store that lets no transaction conflict.
ConflictingNever(u, t) == tx

\* Every other transaction that read the topic before this write now conflicts.
Conflicting(u, t) ==
    [v \in Users |->
        IF v # u /\ tx[v].pc \in {"body", "commit"} /\ tx[v].topic = t
        THEN [tx[v] EXCEPT !.stale = TRUE] ELSE tx[v]]

\* The writes the body queued, applied in one step.
TxApply(u) ==
    LET t == tx[u].topic
        p == PlanOf(u, tx[u].read.interestedUsers)
    IN  CASE tx[u].plan = "pair" ->
               /\ rooms' = [rooms EXCEPT ![tx[u].room] =
                               debateRoomData(t, u, tx[u].partner, tx[u].turn)]
               /\ topics' = [topics EXCEPT ![t].interestedUsers =
                               arrayRemove(topics[t].interestedUsers, p.gone)]
               /\ tx' = [Conflicting(u, t) EXCEPT ![u] = IdleTx]
          [] tx[u].plan = "wait" ->
               /\ topics' = [topics EXCEPT ![t].interestedUsers =
                               arrayUnion(topics[t].interestedUsers, u)]
               /\ tx' = [Conflicting(u, t) EXCEPT ![u] = IdleTx]
               /\ UNCHANGED rooms
          [] OTHER ->
               /\ tx' = [tx EXCEPT ![u] = IdleTx]
               /\ UNCHANGED <<topics, rooms>>

\* TxCommit as a blind write: applied whatever happened to the topic since the read.
TxCommitBlind(u) ==
    /\ tx[u].pc = "commit"
    /\ TxApply(u)
    /\ UNCHANGED <<call, messages, nextRoomId, joinError, activeDebateRoomId, debateRoom, sending>>

\* The commit of the transaction: it applies when the topic is as it was read.
TxCommit(u) ==
    /\ tx[u].pc = "commit"
    /\ ~tx[u].stale
    /\ TxApply(u)
    /\ UNCHANGED <<call, messages, nextRoomId, joinError, activeDebateRoomId, debateRoom, sending>>

\* The commit is refused because the topic changed since the read: the store
\* client runs the body again on a fresh read, up to MaxAttempts times.
TxRetry(u, maxAttempts) ==
    /\ tx[u].pc = "commit"
    /\ tx[u].stale
    /\ tx[u].attempts < maxAttempts
    /\ tx' = [tx EXCEPT ![u] = [IdleTx EXCEPT !.pc = "body", !.topic = tx[u].topic,
                                              !.read = topics[tx[u].topic],
                                              !.attempts = tx[u].attempts + 1]]
    /\ UNCHANGED <<call, store, nextRoomId, joinError, activeDebateRoomId, debateRoom, sending>>

\* runTransaction rejects (the attempts are used up, or the store is unreachable):
\* the catch sets the error, the finally clears isJoining.
TxFail(u, maxAttempts) ==
    /\ tx[u].pc = "commit"
    /\ tx[u].stale => tx[u].attempts >= maxAttempts
    /\ tx' = [tx EXCEPT ![u] = IdleTx]
    /\ joinError' = [joinError EXCEPT ![u] = "failed"]
    /\ UNCHANGED <<call, store, nextRoomId, activeDebateRoomId, debateRoom, sending>>

\* -------------------------------------------------------------- navigation

\* App's listener on the active rooms that hold the user, subscribed while
\* activeDebateRoomId is null: it opens snapshot.docs[0].
ActiveRoomListener(u) ==
    /\ activeDebateRoomId[u] = 0
    /\ \E r \in RoomIds :
        /\ rooms[r].exists
        /\ Includes(rooms[r].participants, u)
        /\ rooms[r].status = "active"
        /\ activeDebateRoomId' = [activeDebateRoomId EXCEPT ![u] = r]
    /\ UNCHANGED <<call, store, nextRoomId, tx, joinError, debateRoom, sending>>

\* handleNavigate('topicList' or 'pastDebates'): the debate room is unmounted.
handleNavigate(u) ==
    /\ activeDebateRoomId[u] # 0
    /\ activeDebateRoomId' = [activeDebateRoomId EXCEPT ![u] = 0]
    /\ debateRoom' = [debateRoom EXCEPT ![u] = NoView]
    /\ UNCHANGED <<call, store, nextRoomId, tx, joinError, sending>>

\* DebateRoomView's listener on the document of roomId: setDebateRoom of what
\* the store holds, null when there is no such document.
RoomSnapshot(u) ==
    LET r == activeDebateRoomId[u]
    IN  /\ r # 0
        /\ debateRoom' = [debateRoom EXCEPT ![u] =
                IF rooms[r].exists THEN [id |-> r, data |-> rooms[r]] ELSE NoView]
        /\ debateRoom'[u] # debateRoom[u]
        /\ UNCHANGED <<call, store, nextRoomId, tx, joinError, activeDebateRoomId, sending>>

\* ------------------------------------------------------------- turn taking

wordsUsedTotal(view, u) == view.data.participantInfo[u].wordsUsed

\* canSendMessage with the reply limit compared by < instead of <=.
canSendMessageBelowLimit(u, k) ==
    LET view == debateRoom[u]
    IN  /\ view # NoView
        /\ WordsIn[k] > 0
        /\ WordsIn[k] < MAX_WORDS_PER_REPLY
        /\ wordsUsedTotal(view, u) + WordsIn[k] <= MAX_WORDS_PER_DEBATE_TOTAL
        /\ view.data.status = "active"
        /\ view.data.turn = u
        /\ ~view.data.participantInfo[u].hasExited

\* MessageInput.canSendMessage, on the debateRoom the component was given.
canSendMessage(u, k) ==
    LET view == debateRoom[u]
    IN  /\ view # NoView
        /\ WordsIn[k] > 0
        /\ WordsIn[k] <= MAX_WORDS_PER_REPLY
        /\ wordsUsedTotal(view, u) + WordsIn[k] <= MAX_WORDS_PER_DEBATE_TOTAL
        /\ view.data.status = "active"
        /\ view.data.turn = u
        /\ ~view.data.participantInfo[u].hasExited

\* handleSendMessage's own early return.
SendGuard(u, k) ==
    /\ debateRoom[u] # NoView
    /\ TrimsToText[k]
    /\ debateRoom[u].data.status = "active"
    /\ debateRoom[u].data.turn = u

\* A variant of the update that always writes a status: the one of the sender's
\* view when the message does not conclude the debate.
participantUpdateWritesStatus(doc, view, u, k) ==
    LET newWordsUsed == wordsUsedTotal(view, u) + WordsIn[k]
        otherParticipantId == FindOther(view.data.participants, u)
        otherParticipantInfo == view.data.participantInfo[otherParticipantId]
        concluded ==
            /\ newWordsUsed >= MAX_WORDS_PER_DEBATE_TOTAL
            /\ otherParticipantInfo.wordsUsed >= MAX_WORDS_PER_DEBATE_TOTAL
    IN  [doc EXCEPT !.participantInfo[u].wordsUsed = newWordsUsed,
                    !.turn = otherParticipantId,
                    !.status = IF concluded THEN "concluded_word_limit"
                               ELSE view.data.status]

\* A variant of the update that never concludes the debate.
participantUpdateKeepsStatus(doc, view, u, k) ==
    [doc EXCEPT !.participantInfo[u].wordsUsed =
                    wordsUsedTotal(view, u) + WordsIn[k],
                !.turn = FindOther(view.data.participants, u)]

\* The participantUpdate handleSendMessage computes from its debateRoom, applied
\* to a room document.
participantUpdate(doc, view, u, k) ==
    LET newWordsUsed == wordsUsedTotal(view, u) + WordsIn[k]
        otherParticipantId == FindOther(view.data.participants, u)
        otherParticipantInfo == view.data.participantInfo[otherParticipantId]
        concluded ==
            \/ /\ newWordsUsed >= MAX_WORDS_PER_DEBATE_TOTAL
               /\ otherParticipantInfo.wordsUsed >= MAX_WORDS_PER_DEBATE_TOTAL
            \/ /\ newWordsUsed >= MAX_WORDS_PER_DEBATE_TOTAL
               /\ otherParticipantInfo.hasExited
            \/ /\ otherParticipantInfo.wordsUsed >= MAX_WORDS_PER_DEBATE_TOTAL
               /\ view.data.participantInfo[u].hasExited
    IN  [doc EXCEPT !.participantInfo[u].wordsUsed = newWordsUsed,
                    !.turn = otherParticipantId,
                    !.status = IF concluded THEN "concluded_word_limit" ELSE @]

messageData(u, k) ==
    [senderId |-> u, text |-> k, wordCount |-> WordsIn[k],
     isFallacyAlert |-> FALSE, isGeminiResponse |-> FALSE]

\* The snapshot the room listener hands the client for its own pending write.
OwnWrite(u, r, k) ==
    IF debateRoom[u].id = r
    THEN [debateRoom EXCEPT ![u].data = participantUpdate(@, debateRoom[u], u, k)]
    ELSE debateRoom

\* handleSendMessage called without MessageInput's canSendMessage test.
handleSendMessageUnchecked(u, k, maxMsgs) ==
    LET r == activeDebateRoomId[u]
        view == debateRoom[u]
    IN  /\ sending[u] = NotSending
        /\ SendGuard(u, k)
        /\ r # 0
        /\ Len(messages[r]) < maxMsgs
        /\ IF rooms[r].exists
           THEN /\ messages' = [messages EXCEPT ![r] = Append(@, messageData(u, k))]
                /\ rooms' = [rooms EXCEPT ![r] = participantUpdate(@, view, u, k)]
                /\ debateRoom' = OwnWrite(u, r, k)
                /\ sending' = [sending EXCEPT ![u] =
                                   [stage |-> "fallacy", room |-> r, text |-> k]]
           ELSE UNCHANGED <<messages, rooms, debateRoom, sending>>
        /\ UNCHANGED <<call, topics, nextRoomId, tx, joinError, activeDebateRoomId>>

\* MessageInput.handleSend and handleSendMessage up to batch.commit(): the message
\* and the room update are written to roomId in one batch, which fails as a whole
\* when the room document does not exist.
handleSendMessage(u, k, maxMsgs) ==
    LET r == activeDebateRoomId[u]
        view == debateRoom[u]
    IN  /\ canSendMessage(u, k)
        /\ sending[u] = NotSending
        /\ SendGuard(u, k)
        /\ r # 0
        /\ Len(messages[r]) < maxMsgs
        /\ IF rooms[r].exists
           THEN /\ messages' = [messages EXCEPT ![r] = Append(@, messageData(u, k))]
                /\ rooms' = [rooms EXCEPT ![r] = participantUpdate(@, view, u, k)]
                /\ debateRoom' = OwnWrite(u, r, k)
                /\ sending' = [sending EXCEPT ![u] =
                                   [stage |-> "fallacy", room |-> r, text |-> k]]
           ELSE UNCHANGED <<messages, rooms, debateRoom, sending>>
        /\ UNCHANGED <<call, topics, nextRoomId, tx, joinError, activeDebateRoomId>>

\* addGeminiMessage with the defaults of its two flags.
addGeminiMessageUnflagged(r, reply, isFallacyAlert, isGeminiResponse) ==
    IF ReplyOf[reply] # <<>>
    THEN messages' = [messages EXCEPT ![r] = Append(@,
            [senderId |-> "gemini", text |-> reply, wordCount |-> 0,
             isFallacyAlert |-> FALSE, isGeminiResponse |-> FALSE])]
    ELSE UNCHANGED messages

\* addGeminiMessage
addGeminiMessage(r, reply, isFallacyAlert, isGeminiResponse) ==
    IF ReplyOf[reply] # <<>>
    THEN messages' = [messages EXCEPT ![r] = Append(@,
            [senderId |-> "gemini", text |-> reply, wordCount |-> 0,
             isFallacyAlert |-> isFallacyAlert, isGeminiResponse |-> isGeminiResponse])]
    ELSE UNCHANGED messages

\* A variant of the step in which a failed fallacy call gives the turn back to
\* the sender.
FallacyReplyRollsBack(u, reply, maxMsgs) ==
    LET r == sending[u].room
        k == sending[u].text
    IN  /\ sending[u].stage = "fallacy"
        /\ IF IsFallacy[reply]
           THEN /\ Len(messages[r]) < maxMsgs
                /\ addGeminiMessage(r, reply, TRUE, FALSE)
           ELSE UNCHANGED messages
        /\ rooms' = IF reply = "failure" THEN [rooms EXCEPT ![r].turn = u] ELSE rooms
        /\ sending' = [sending EXCEPT ![u] =
                IF IsMention[k] /\ HasQuestion[k]
                THEN [sending[u] EXCEPT !.stage = "qa"] ELSE NotSending]
        /\ UNCHANGED <<call, topics, nextRoomId, tx, joinError, activeDebateRoomId,
                       debateRoom>>

\* The fallacy call returns: its text is posted unless it is the sentinel. The
\* handler goes on to the question when the message mentions the assistant.
FallacyReply(u, reply, maxMsgs) ==
    LET r == sending[u].room
        k == sending[u].text
    IN  /\ sending[u].stage = "fallacy"
        /\ IF IsFallacy[reply]
           THEN /\ Len(messages[r]) < maxMsgs
                /\ addGeminiMessage(r, reply, TRUE, FALSE)
           ELSE UNCHANGED messages
        /\ sending' = [sending EXCEPT ![u] =
                IF IsMention[k] /\ HasQuestion[k]
                THEN [sending[u] EXCEPT !.stage = "qa"] ELSE NotSending]
        /\ UNCHANGED <<call, topics, rooms, nextRoomId, tx, joinError, activeDebateRoomId,
                       debateRoom>>

\* The question call returns: a non-empty text is posted as the answer.
QAReply(u, reply, maxMsgs) ==
    LET r == sending[u].room
    IN  /\ sending[u].stage = "qa"
        /\ IF ReplyOf[reply] # <<>>
           THEN /\ Len(messages[r]) < maxMsgs
                /\ addGeminiMessage(r, reply, FALSE, TRUE)
           ELSE UNCHANGED messages
        /\ sending' = [sending EXCEPT ![u] = NotSending]
        /\ UNCHANGED <<call, topics, rooms, nextRoomId, tx, joinError, activeDebateRoomId,
                       debateRoom>>

\* exitUpdates that writes the participant's whole participantInfo entry instead
\* of the field participantInfo.<uid>.hasExited.
exitUpdatesWholeEntry(doc, view, u) ==
    LET otherParticipantId == FindOther(view.data.participants, u)
        otherParticipantInfo == view.data.participantInfo[otherParticipantId]
        exited == [doc EXCEPT !.participantInfo[u] = [wordsUsed |-> 0, hasExited |-> TRUE]]
    IN  IF otherParticipantInfo.hasExited
        THEN [exited EXCEPT !.status = "concluded_both_exited"]
        ELSE IF otherParticipantInfo.wordsUsed >= MAX_WORDS_PER_DEBATE_TOTAL
        THEN [exited EXCEPT !.status = "concluded_one_exit_one_limit"]
        ELSE [exited EXCEPT !.turn = otherParticipantId,
                            !.status = "concluded_one_exited"]

\* exitUpdates that writes hasExited only and leaves the status to the next
\* message.
exitUpdatesKeepsStatus(doc, view, u) ==
    [doc EXCEPT !.participantInfo[u].hasExited = TRUE]

\* The updates handleUserExit computes from its debateRoom, applied to a room
\* document.
exitUpdates(doc, view, u) ==
    LET otherParticipantId == FindOther(view.data.participants, u)
        otherParticipantInfo == view.data.participantInfo[otherParticipantId]
        exited == [doc EXCEPT !.participantInfo[u].hasExited = TRUE]
    IN  IF otherParticipantInfo.hasExited
        THEN [exited EXCEPT !.status = "concluded_both_exited"]
        ELSE IF otherParticipantInfo.wordsUsed >= MAX_WORDS_PER_DEBATE_TOTAL
        THEN [exited EXCEPT !.status = "concluded_one_exit_one_limit"]
        ELSE [exited EXCEPT !.turn = otherParticipantId,
                            !.status = "concluded_one_exited"]

\* handleUserExit: the Exit button is enabled while the user's own hasExited, as
\* rendered, is false; the update goes to debateRoom.id, then onExitDebate leaves
\* the room.
handleUserExit(u) ==
    LET view == debateRoom[u]
    IN  /\ view # NoView
        /\ ~view.data.participantInfo[u].hasExited
        /\ rooms' = [rooms EXCEPT ![view.id] = exitUpdates(@, view, u)]
        /\ activeDebateRoomId' = [activeDebateRoomId EXCEPT ![u] = 0]
        /\ debateRoom' = [debateRoom EXCEPT ![u] = NoView]
        /\ UNCHANGED <<call, topics, messages, nextRoomId, tx, joinError, sending>>

\* ----------------------------------------------------------- specification

\* The steps of handleSignalInterest for the calls (user, topic) of C.
Matchmaking(U, C, maxRooms, maxAttempts) ==
    \/ \E c \in C : SignalInterest(c[1], c[2])
    \/ \E u \in U : TxBody(u, maxRooms)
    \/ \E u \in U : TxCommit(u)
    \/ \E u \in U : TxRetry(u, maxAttempts)
    \/ \E u \in U : TxFail(u, maxAttempts)

\* The steps of App and of the room listener of DebateRoomView.
Navigation(U) ==
    \/ \E u \in U : ActiveRoomListener(u)
    \/ \E u \in U : handleNavigate(u)
    \/ \E u \in U : RoomSnapshot(u)

\* The steps of the debate room, with texts from K and replies from R.
TurnTaking(U, K, R, maxMsgs) ==
    \/ \E u \in U, k \in K : handleSendMessage(u, k, maxMsgs)
    \/ \E u \in U, reply \in R : FallacyReply(u, reply, maxMsgs)
    \/ \E u \in U, reply \in R : QAReply(u, reply, maxMsgs)
    \/ \E u \in U : handleUserExit(u)

\* The whole program, two clients.
Next ==
    \/ Matchmaking(DebateUsers, DebateUsers \X TopicIds, MaxDebateRooms, MaxAttempts)
    \/ Navigation(DebateUsers)
    \/ TurnTaking(DebateUsers, {"blank", "ask", "w500", "w501"},
                 {"sentinel", "answer", "failure"}, MaxMsgs)

Spec == Init /\ [][Next]_vars

\* Matchmaking among three clients on topic "T1"; "C" also signals on "T2",
\* an id no topic has.  "A" and "B" have the room listener and the header.
MatchNext ==
    \/ Matchmaking(Users, (Users \X {"T1"}) \cup {<<"C", "T2">>},
                   MaxRoomIds, MaxAttempts)
    \/ \E u \in DebateUsers : ActiveRoomListener(u)
    \/ \E u \in DebateUsers : handleNavigate(u)

SpecMatch == Init /\ [][MatchNext]_vars

\* Two clients and two rooms in depth: transactions that commit or wait, "A"
\* submitting replies of MAX_WORDS_PER_REPLY words, "B" silent, and a moderator
\* that finds no fallacy.
CrossNext ==
    \/ \E u \in DebateUsers : SignalInterest(u, "T1")
    \/ \E u \in DebateUsers : TxBody(u, MaxRoomIds)
    \/ \E u \in DebateUsers : TxCommit(u)
    \/ Navigation(DebateUsers)
    \/ handleSendMessage("A", "w500", MaxCrossMsgs)
    \/ FallacyReply("A", "sentinel", MaxCrossMsgs)

SpecCross == Init /\ [][CrossNext]_vars

\* Three clients and two rooms: transactions that commit or wait, and "A" with
\* the room listener, the header and the message input.
ThreeNext ==
    \/ \E u \in Users : SignalInterest(u, "T1")
    \/ \E u \in Users : TxBody(u, MaxRoomIds)
    \/ \E u \in Users : TxCommit(u)
    \/ Navigation({"A"})
    \/ handleSendMessage("A", "w500", MaxMsgs)
    \/ FallacyReply("A", "sentinel", MaxMsgs)

SpecThree == Init /\ [][ThreeNext]_vars

\* One debate of two clients played to its end: replies of 0, 500 and 501
\* words, a moderator that finds no fallacy, and exits.
DebateNext ==
    \/ \E u \in DebateUsers : SignalInterest(u, "T1")
    \/ \E u \in DebateUsers : TxBody(u, MaxDebateRooms)
    \/ \E u \in DebateUsers : TxCommit(u)
    \/ Navigation(DebateUsers)
    \/ \E u \in DebateUsers, k \in {"blank", "w500", "w501"} :
           handleSendMessage(u, k, MaxDebateMsgs)
    \/ \E u \in DebateUsers : FallacyReply(u, "sentinel", MaxDebateMsgs)
    \/ \E u \in DebateUsers : handleUserExit(u)

SpecDebate == Init /\ [][DebateNext]_vars

\* One session of two clients with every reply of the moderator: messages that
\* mention the assistant with and without a question.
ModerationNext ==
    \/ \E u \in DebateUsers : SignalInterest(u, "T1")
    \/ \E u \in DebateUsers : TxBody(u, MaxDebateRooms)
    \/ \E u \in DebateUsers : TxCommit(u)
    \/ Navigation(DebateUsers)
    \/ \E u \in DebateUsers, k \in {"ask", "mention"} :
           handleSendMessage(u, k, MaxModerationMsgs)
    \/ \E u \in DebateUsers, reply \in ReplyKeys :
           FallacyReply(u, reply, MaxModerationMsgs)
    \/ \E u \in DebateUsers, reply \in ReplyKeys :
           QAReply(u, reply, MaxModerationMsgs)

SpecModeration == Init /\ [][ModerationNext]_vars

\* SpecCross with the snapshots of both listeners delivered and the running
\* transactions carried on; what the users do is left to them.
FairCross ==
    /\ SpecCross
    /\ \A u \in DebateUsers :
           /\ WF_vars(ActiveRoomListener(u))
           /\ WF_vars(RoomSnapshot(u))
           /\ WF_vars(TxBody(u, MaxRoomIds))
           /\ WF_vars(TxCommit(u))

\* One debate of two clients with replies of unequal length: "A" submits
\* replies of MAX_WORDS_PER_REPLY words, "B" replies of one word.
UnevenNext ==
    \/ \E u \in DebateUsers : SignalInterest(u, "T1")
    \/ \E u \in DebateUsers : TxBody(u, MaxDebateRooms)
    \/ \E u \in DebateUsers : TxCommit(u)
    \/ Navigation(DebateUsers)
    \/ handleSendMessage("A", "w500", MaxDebateMsgs)
    \/ handleSendMessage("B", "one", MaxDebateMsgs)
    \/ \E u \in DebateUsers : FallacyReply(u, "sentinel", MaxDebateMsgs)

SpecUneven == Init /\ [][UnevenNext]_vars

\* countWords called once, with any of Inputs.
CountWordsCall(value) ==
    /\ countWordsArg = NoCall
    /\ countWordsArg' = value
    /\ countWordsResult' = countWordsOf(value)
    /\ UNCHANGED <<store, nextRoomId, tx, joinError, activeDebateRoomId, debateRoom,
                   sending>>

WordsNext == \E value \in Inputs : CountWordsCall(value)

SpecWords == Init /\ [][WordsNext]_vars

\* ------------------------------------------------------------ matchmaking

IsParticipant(r, u) == rooms[r].exists /\ Includes(rooms[r].participants, u)

ActiveSessionsOf(u) ==
    {r \in RoomIds : IsParticipant(r, u) /\ rooms[r].status = "active"}

Sessions == {r \in RoomIds : rooms[r].exists}

EverPaired == {u \in Users : \E r \in Sessions : IsParticipant(r, u)}

\* C1: no user is a participant of more than one session whose status is
\* active at the same time.
C1_AtMostOneActiveSession ==
    \A u \in Users : Cardinality(ActiveSessionsOf(u)) <= 1

\* C2: the number of sessions created equals floor(P / 2), P the number of
\* distinct users that have ever been made a participant of a session.
C2_SessionsAreHalfThePaired ==
    Cardinality(Sessions) = Cardinality(EverPaired) \div 2

\* C3: no user is at the same time in interestedUsers of a topic and a
\* participant of an active session created from that topic.
C3_InterestedMeansUnmatched ==
    \A t \in TopicIds, u \in Users :
        Includes(topics[t].interestedUsers, u) =>
            ~\E r \in ActiveSessionsOf(u) : rooms[r].topicId = t

\* The step that ends u's transaction.
Ends(u) == tx[u].pc = "commit" /\ tx'[u].pc = "idle"

\* The step that ends u's transaction with its writes committed.
Commits(u) == Ends(u) /\ joinError'[u] = "none"

\* Room r is created by this step for u and w, fresh and active.
CreatedFor(r, u, w) ==
    /\ ~rooms[r].exists /\ rooms'[r].exists
    /\ Len(rooms'[r].participants) = 2
    /\ {rooms'[r].participants[i] : i \in 1..2} = {u, w}
    /\ \A p \in {u, w} :
           rooms'[r].participantInfo[p] = [wordsUsed |-> 0, hasExited |-> FALSE]
    /\ rooms'[r].status = "active"
    /\ rooms'[r].turn \in {u, w}
    /\ \A q \in RoomIds \ {r} : rooms'[q] = rooms[q]

\* C4: a signalInterest committed on a topic nobody waits on adds the caller to
\* interestedUsers and creates no session; one committed on a topic where a
\* different user waits creates exactly one session of exactly those two users,
\* with wordsUsed 0 and hasExited false for both, status active and the turn
\* given to one of the two, and leaves interestedUsers empty.
C4_FirstWaitsSecondPairs ==
    [][\A u \in Users : Commits(u) =>
          LET t == tx[u].topic
              waiting == topics[t].interestedUsers
          IN  /\ waiting = <<>> =>
                    /\ topics'[t].interestedUsers = <<u>>
                    /\ rooms' = rooms
              /\ (Len(waiting) = 1 /\ waiting[1] # u) =>
                    /\ \E r \in RoomIds : CreatedFor(r, u, waiting[1])
                    /\ topics'[t].interestedUsers = <<>>]_vars

\* A first user waited, a second one was paired with them: one session exists.
C4_Paired ==
    /\ nextRoomId = 2
    /\ rooms[1].exists
    /\ {rooms[1].participants[i] : i \in 1..2} = {"A", "B"}
    /\ topics["T1"].interestedUsers = <<>>

\* C5: pairing is all-or-nothing. A transaction that ends committed has applied
\* its whole plan in that one step (the room exists and both paired users are
\* out of interestedUsers, the partner having been there until the commit); an
\* attempt refused for a conflict, and a transaction that ends aborted, change
\* neither the topics nor the rooms, and the abort sets the join-failed error.
C5_PairingAllOrNothing ==
    [][\A u \in Users :
          LET t == tx[u].topic
          IN  /\ (tx[u].pc = "commit" /\ tx[u].stale /\ tx'[u] # tx[u]) =>
                    <<topics, rooms>>' = <<topics, rooms>>
              /\ (Ends(u) /\ ~Commits(u)) =>
                    /\ joinError'[u] = "failed"
                    /\ <<topics, rooms>>' = <<topics, rooms>>
              /\ (Commits(u) /\ tx[u].plan = "pair") =>
                    /\ Includes(topics[t].interestedUsers, tx[u].partner)
                    /\ CreatedFor(tx[u].room, u, tx[u].partner)
                    /\ ~Includes(topics'[t].interestedUsers, u)
                    /\ ~Includes(topics'[t].interestedUsers, tx[u].partner)
              /\ (\E r \in RoomIds : ~rooms[r].exists /\ rooms'[r].exists) =>
                    \E v \in Users : Commits(v) /\ tx[v].plan = "pair"]_vars

\* A pairing transaction has aborted: its caller was sent to a
\* room that was never written, and holds the join-failed error.
C5_PairingAborted ==
    \E u \in Users :
        /\ joinError[u] = "failed"
        /\ activeDebateRoomId[u] # 0
        /\ ~rooms[activeDebateRoomId[u]].exists
        /\ nextRoomId > activeDebateRoomId[u] + 1

\* C6: signalInterest on a topic id no document has ends with the not-found
\* error at its first step after the read, and changes nothing: the missing
\* topic stays missing, no topic is modified and no session is created.
C6_MissingTopicNotFound ==
    [][\A u \in Users :
          (tx[u].pc # "idle" /\ ~tx[u].read.exists /\ tx'[u] # tx[u]) =>
              /\ tx'[u].pc = "idle"
              /\ joinError'[u] = "not_found"
              /\ <<topics, rooms, messages>>' = <<topics, rooms, messages>>
              /\ topics'["T2"] = NoTopic]_vars

\* The call on the missing topic has returned with the not-found error.
C6_NotFound ==
    /\ joinError["C"] = "not_found"
    /\ tx["C"].pc = "idle"
    /\ ~topics["T2"].exists

\* ------------------------------------------------------------- turn taking

\* This step commits a message of u to room r.
CommitsMessage(r, u) ==
    /\ Len(messages'[r]) = Len(messages[r]) + 1
    /\ messages'[r][Len(messages'[r])].senderId = u

\* C7: no message with senderId u is committed to a session whose stored turn
\* at the moment of the commit is not u.
C7_OnlyTheTurnHolderCommits ==
    [][\A r \in RoomIds, u \in Users : CommitsMessage(r, u) => rooms[r].turn = u]_vars

RECURSIVE WordsOf(_, _)
\* The words of the messages of log that u sent.
WordsOf(log, u) ==
    IF log = <<>> THEN 0
    ELSE (IF Head(log).senderId = u THEN Head(log).wordCount ELSE 0)
         + WordsOf(Tail(log), u)

\* Every stored wordsUsed is between 0 and MAX_WORDS_PER_DEBATE_TOTAL.
WordsUsedInRange ==
    \A r \in Sessions : \A p \in DOMAIN rooms[r].participantInfo :
        rooms[r].participantInfo[p].wordsUsed \in 0..MAX_WORDS_PER_DEBATE_TOTAL

\* C9: every participant's wordsUsed is between 0 and 2000, and the words of
\* all the messages a participant has committed in a session total at most 2000.
C9_TotalWordBudget ==
    /\ WordsUsedInRange
    /\ \A r \in RoomIds, u \in Users :
           WordsOf(messages[r], u) <= MAX_WORDS_PER_DEBATE_TOTAL

\* A submit of text k by u passes the early returns of handleSend and of
\* handleSendMessage.
Accepted(u, k) == canSendMessage(u, k) /\ SendGuard(u, k)

\* As u's client shows it, u holds the turn in an active session and has not exited.
HoldsTurn(u) ==
    /\ debateRoom[u] # NoView
    /\ debateRoom[u].data.status = "active"
    /\ debateRoom[u].data.turn = u
    /\ ~debateRoom[u].data.participantInfo[u].hasExited

UserMessages(r) == {i \in 1..Len(messages[r]) : messages[r][i].senderId \in Users}

Submits(u) == sending[u] = NotSending /\ sending'[u] # NotSending

\* C10: a rejected submit mutates nothing: only a submit that is accepted in the
\* state it is made in writes a message of its sender or starts the moderation,
\* and a step that is no accepted submit and no exit leaves every session
\* record as it is.
C10_RejectedSubmitMutatesNothing ==
    [][/\ \A u \in Users :
             /\ Submits(u) => Accepted(u, sending'[u].text)
             /\ \A r \in RoomIds : CommitsMessage(r, u) =>
                    /\ Submits(u)
                    /\ messages'[r][Len(messages'[r])].text = sending'[u].text
       /\ (\E r \in RoomIds : rooms[r].exists /\ rooms'[r] # rooms[r]) =>
             \E u \in Users :
                 \/ Submits(u)
                 \/ debateRoom[u] # NoView /\ debateRoom'[u] = NoView]_vars

\* A user whose submit is rejected for the turn, in a session that has a message.
C10_Rejected ==
    \E u \in Users :
        /\ debateRoom[u] # NoView
        /\ debateRoom[u].data.status = "active"
        /\ debateRoom[u].data.turn # u
        /\ ~Accepted(u, "w500")
        /\ Len(messages[debateRoom[u].id]) > 0

\* What MessageInput renders about a text k that cannot be sent: the notice that
\* replaces the input, or the line under it; "none" when it renders neither.
\* handleSend itself returns without setting the error state.
renderedReason(u, k) ==
    LET view == debateRoom[u]
    IN  IF view.data.participantInfo[u].hasExited THEN "exited"
        ELSE IF view.data.status # "active" THEN "concluded"
        ELSE IF view.data.turn # u THEN "waiting"
        ELSE IF wordsUsedTotal(view, u) >= MAX_WORDS_PER_DEBATE_TOTAL THEN "words_used_up"
        ELSE IF WordsIn[k] > MAX_WORDS_PER_REPLY THEN "reply_exceeds"
        ELSE IF wordsUsedTotal(view, u) + WordsIn[k] > MAX_WORDS_PER_DEBATE_TOTAL
             THEN "exceeds_total"
        ELSE "none"

\* C11: a submit that fails a precondition is surfaced to the caller with a
\* reason: whenever the client shows a session and a text cannot be sent, the
\* client shows why.
C11_RejectionShowsReason ==
    \A u \in Users, k \in TextKeys :
        (debateRoom[u] # NoView /\ ~canSendMessage(u, k)) => renderedReason(u, k) # "none"

\* C12: an accepted submit by the turn-holder u appends exactly one message
\* (senderId u, wordCount the words of its text), adds that count to the stored
\* wordsUsed of u, gives the turn to the other participant, also when the
\* message concludes the session, and leaves the other participant's record
\* and the participants as they are.
C12_AcceptedSubmitEffect ==
    [][\A r \in RoomIds, u \in Users :
          (CommitsMessage(r, u) /\ rooms[r].turn = u) =>
              LET m == messages'[r][Len(messages'[r])]
                  other == FindOther(rooms[r].participants, u)
              IN  /\ messages'[r] = Append(messages[r], m)
                  /\ \A q \in RoomIds \ {r} : messages'[q] = messages[q]
                  /\ m.wordCount = WordsIn[m.text]
                  /\ rooms'[r].participantInfo[u].wordsUsed
                         = rooms[r].participantInfo[u].wordsUsed + m.wordCount
                  /\ rooms'[r].turn = other
                  /\ rooms'[r].participantInfo[other] = rooms[r].participantInfo[other]
                  /\ rooms'[r].participants = rooms[r].participants]_vars

\* C13: in every session the stored wordsUsed of a participant is the sum of
\* wordCount over the session's messages that participant sent.
C13_WordsUsedIsSumOfMessages ==
    \A r \in Sessions : \A p \in DOMAIN rooms[r].participantInfo :
        rooms[r].participantInfo[p].wordsUsed = WordsOf(messages[r], p)

Concluded ==
    {"concluded_word_limit", "concluded_one_exited",
     "concluded_one_exit_one_limit", "concluded_both_exited"}

\* C15: once the stored status of a session is different from active, no step
\* of any operation sets it back to active.
C15_NeverBackToActive ==
    [][\A r \in Sessions :
          rooms[r].status # "active" => rooms'[r].status # "active"]_vars

\* A session concluded by an exit on which the remaining participant, whose
\* view was not yet refreshed, acted afterwards: the turn is back with the
\* participant who left.
C15_ActedOnAfterConclusion ==
    \E r \in Sessions :
        /\ rooms[r].status = "concluded_one_exited"
        /\ rooms[r].participantInfo[rooms[r].turn].hasExited
        /\ Len(messages[r]) > 0

\* C16: once the stored status of a session is one of the concluded values, no
\* later step changes it to any other value.
C16_ConcludedIsTerminal ==
    [][\A r \in Sessions :
          rooms[r].status \in Concluded
              => rooms'[r].status = rooms[r].status]_vars

\* Both participants of session r have used up the words of the debate.
BothAtLimit(r) ==
    \A p \in DOMAIN rooms[r].participantInfo :
        rooms[r].participantInfo[p].wordsUsed >= MAX_WORDS_PER_DEBATE_TOTAL

C18_NoMessageAfterConclusion ==
    [][\A r \in Sessions, u \in Users :
          CommitsMessage(r, u) =>
              /\ rooms[r].status = "active"
              /\ u \in DOMAIN rooms[r].participantInfo
                     => ~rooms[r].participantInfo[u].hasExited]_vars

\* The step is an exit of participant u from session r.
Exits(r, u) ==
    /\ u \in DOMAIN rooms[r].participantInfo
    /\ ~rooms[r].participantInfo[u].hasExited
    /\ rooms'[r].participantInfo[u].hasExited

\* C19: an exit of u sets hasExited of u and decides the status from the
\* stored state of the other participant: concluded_both_exited if the other
\* has exited, else concluded_one_exit_one_limit if the other's wordsUsed is
\* at least 2000, else concluded_one_exited with the turn given to the other;
\* both wordsUsed, the other's hasExited and the messages are left unchanged.
C19_ExitEffect ==
    [][\A r \in Sessions, u \in Users :
          Exits(r, u) =>
              LET other == FindOther(rooms[r].participants, u)
                  info == rooms[r].participantInfo
              IN  /\ IF info[other].hasExited
                     THEN rooms'[r].status = "concluded_both_exited"
                     ELSE IF info[other].wordsUsed >= MAX_WORDS_PER_DEBATE_TOTAL
                     THEN rooms'[r].status = "concluded_one_exit_one_limit"
                     ELSE /\ rooms'[r].status = "concluded_one_exited"
                          /\ rooms'[r].turn = other
                  /\ rooms'[r].participantInfo[other] = info[other]
                  /\ rooms'[r].participantInfo[u].wordsUsed = info[u].wordsUsed
                  /\ messages' = messages]_vars

\* A state with nothing in flight: no pairing transaction or moderation is
\* running and every
\* client that shows a session shows its stored document.
Quiescent ==
    /\ \A u \in Users : tx[u] = IdleTx /\ sending[u] = NotSending
    /\ \A u \in Users :
           debateRoom[u] # NoView =>
               debateRoom[u].data = rooms[debateRoom[u].id]

\* C20: in every quiescent state in which both participants of a session have
\* hasExited = true, the status of the session is concluded_both_exited.
C20_BothExitedStatus ==
    \A r \in Sessions :
        (Quiescent /\ \A p \in DOMAIN rooms[r].participantInfo :
                          rooms[r].participantInfo[p].hasExited)
            => rooms[r].status = "concluded_both_exited"

\* ------------------------------------------------------------- moderation

\* The messages of session r posted by addGeminiMessage.
GeminiMessages(r) ==
    {i \in 1..Len(messages[r]) : messages[r][i].senderId = "gemini"}

\* C21: a failure of the external service, for the fallacy check or for the
\* question, produces no moderation message: no session holds a message of the
\* moderator whose text is what callGeminiAPI returns on failure.
C21_FailureGivesNoMessage ==
    \A r \in RoomIds : \A i \in GeminiMessages(r) : messages[r][i].text # "failure"

\* The step ends a call of the moderation of u's message: the handler leaves
\* the stage it awaited.
ModerationStep(u) ==
    /\ sending[u].stage # "idle"
    /\ sending'[u] # sending[u]

\* C22: moderation never blocks or rolls back a turn.  While the moderation of
\* a message of u is pending, the message and its words are already stored;
\* and no step of the moderation changes a room document or a stored message,
\* whatever the service answers: it adds at most one message of the moderator.
C22_ModerationLeavesTheTurn ==
    /\ [](\A u \in Users :
            sending[u].stage # "idle" =>
                LET r == sending[u].room
                IN  /\ \E i \in 1..Len(messages[r]) :
                           /\ messages[r][i].senderId = u
                           /\ messages[r][i].text = sending[u].text
                    /\ rooms[r].participantInfo[u].wordsUsed >= WordsIn[sending[u].text])
    /\ [][\A u \in Users :
            ModerationStep(u) =>
                /\ rooms' = rooms
                /\ \A r \in RoomIds :
                       \/ messages'[r] = messages[r]
                       \/ /\ Len(messages'[r]) = Len(messages[r]) + 1
                          /\ SubSeq(messages'[r], 1, Len(messages[r])) = messages[r]
                          /\ messages'[r][Len(messages'[r])].senderId = "gemini"]_vars

\* The other participant has submitted a message while the moderation of u's
\* message is still pending.
C22_SubmittedWhilePending ==
    \E u \in Users :
        /\ sending[u].stage = "fallacy"
        /\ LET log == messages[sending[u].room]
           IN  /\ Len(log) = 2
               /\ log[1].senderId = u
               /\ log[2].senderId \in Users \ {u}

\* The replies that are NO_FALLACIES_DETECTED in some letter case with
\* whitespace around it, and the replies that are an analysis or an answer.
SentinelReplies == {"sentinel", "padded"}
AnswerReplies == {"answer"}

\* C23: when the fallacy call returns the sentinel, in any letter case and
\* with whitespace around it, or nothing, the step appends no message; when it
\* returns any other answer the step appends exactly one message, of the
\* moderator, with isFallacyAlert set and the answer as its text.
C23_SentinelGivesNoAlert ==
    [][\A u \in Users, reply \in SentinelReplies \cup AnswerReplies \cup {"empty"} :
          FallacyReply(u, reply, MaxModerationMsgs) =>
              IF reply \in AnswerReplies
              THEN messages' = [messages EXCEPT ![sending[u].room] = Append(@,
                        [senderId |-> "gemini", text |-> reply, wordCount |-> 0,
                         isFallacyAlert |-> TRUE, isGeminiResponse |-> FALSE])]
              ELSE messages' = messages]_vars

\* Two messages whose moderation is over, one found free of fallacies and one
\* answered with an analysis: the session holds one alert.
C23_OneAlertForTwoMessages ==
    \E r \in Sessions :
        /\ \A u \in Users : sending[u] = NotSending
        /\ Len(messages[r]) = 3
        /\ messages[r][1].senderId \in Users
        /\ messages[r][2].senderId \in Users
        /\ messages[r][3] = [senderId |-> "gemini", text |-> "answer", wordCount |-> 0,
                             isFallacyAlert |-> TRUE, isGeminiResponse |-> FALSE]

\* The texts that begin with the mention token, in any letter case, and go on
\* with a question.
Questions == {"ask"}

\* The step appends a message with isGeminiResponse set to session r.
AppendsAnswer(r) ==
    /\ Len(messages'[r]) = Len(messages[r]) + 1
    /\ messages'[r][Len(messages'[r])].isGeminiResponse

\* C24: a message with isGeminiResponse set is appended for an accepted
\* message if and only if its text begins with the mention token, the rest is
\* not empty and the service returned an answer.  The handler awaits the
\* question call exactly for the texts of Questions; when the call returns,
\* one message is appended if it returned an answer and none otherwise; and no
\* other step appends such a message.
C24_AnswerOnlyForQuestions ==
    [][/\ \A u \in Users, reply \in ReplyKeys :
             FallacyReply(u, reply, MaxModerationMsgs) =>
                 (sending'[u].stage = "qa" <=> sending[u].text \in Questions)
       /\ \A u \in Users, reply \in ReplyKeys :
             QAReply(u, reply, MaxModerationMsgs) =>
                 IF reply \in AnswerReplies \cup SentinelReplies
                 THEN messages' = [messages EXCEPT ![sending[u].room] = Append(@,
                           [senderId |-> "gemini", text |-> reply, wordCount |-> 0,
                            isFallacyAlert |-> FALSE, isGeminiResponse |-> TRUE])]
                 ELSE messages' = messages
       /\ \A r \in RoomIds :
             AppendsAnswer(r) =>
                 \E u \in Users : sending[u].stage = "qa" /\ sending[u].room = r]_vars

\* Every message of every session is of sender id or of one of the session's
\* participants, and its flags are set exactly when it is of sender id.
SendersAre(id) ==
    \A r \in Sessions : \A i \in 1..Len(messages[r]) :
        LET m == messages[r][i]
        IN  /\ m.senderId = id \/ Includes(rooms[r].participants, m.senderId)
            /\ (m.isFallacyAlert \/ m.isGeminiResponse) <=> m.senderId = id

Runs(s) ==
    Cardinality({i \in 1..Len(s) : ~IsSpace(s[i]) /\ (i = 1 \/ IsSpace(s[i - 1]))})

\* C26: countWords of a string is the number of its maximal runs of
\* non-whitespace characters; it is 0 for the empty string, for a string of
\* whitespace only and for a value that is not a string; and whitespace put
\* before or after the string does not change it.
C26_CountWordsCountsRuns ==
    countWordsArg # NoCall =>
        LET s == countWordsArg.chars
        IN  IF countWordsArg.type # "string"
            THEN countWordsResult = 0
            ELSE /\ countWordsResult = Runs(s)
                 /\ (\A i \in 1..Len(s) : IsSpace(s[i])) => countWordsResult = 0
                 /\ \A c \in {" ", "\t", "\n"} :
                        /\ countWords(<<c>> \o s) = countWordsResult
                        /\ countWords(s \o <<c>>) = countWordsResult

\* countWords was called with two words between whitespace.
C26_TwoWordsCounted ==
    /\ countWordsArg = [type |-> "string", chars |-> <<"\n", "a", " ", "b">>]
    /\ countWordsResult = 2

\* ----------------------------------------------------------- notification

\* C27: after a pairing commits, each of the two participants' clients
\* eventually enters the debate room of the new session.
C27_BothEnterTheRoom ==
    \A r \in RoomIds, u \in DebateUsers :
        (rooms[r].exists /\ Includes(rooms[r].participants, u))
            ~> (activeDebateRoomId[u] = r)

\* ------------------------------------------------------------ participants

\* C28: in every reachable state each session has exactly two distinct
\* participants, participantInfo has an entry for exactly those two, and the
\* turn is one of the two; and no step changes the participants of a session.
C28_TwoFixedParticipants ==
    /\ [](\A r \in Sessions :
            LET p == rooms[r].participants
            IN  /\ Len(p) = 2
                /\ p[1] # p[2]
                /\ DOMAIN rooms[r].participantInfo = {p[1], p[2]}
                /\ rooms[r].turn \in {p[1], p[2]})
    /\ [][\A r \in Sessions : rooms'[r].participants = rooms[r].participants]_vars

\* -------------------------------------------------------- waiting alone

\* The client state and store that a signalInterest of a user who waits alone
\* must leave as they are.
Untouched == <<topics, rooms, messages, nextRoomId, activeDebateRoomId>>

\* C29: signalInterest by a user who is in interestedUsers and is the only
\* waiting user is a no-op: the body, run on that read, and the commit leave
\* the topic, the sessions and the caller's view unchanged and report no
\* error; and no user is ever listed twice in interestedUsers.
C29_WaitingAloneIsNoOp ==
    /\ [](\A t \in TopicIds :
            LET w == topics[t].interestedUsers
            IN  \A i, j \in 1..Len(w) : w[i] = w[j] => i = j)
    /\ [][\A u \in Users :
            /\ (/\ tx[u].pc = "body"
                /\ tx[u].read.exists
                /\ tx[u].read.interestedUsers = <<u>>
                /\ tx'[u].pc = "commit")
                   => /\ Untouched' = Untouched
                      /\ tx'[u].plan = "noop"
            /\ (Commits(u) /\ topics[tx[u].topic].interestedUsers = <<u>>)
                   => Untouched' = Untouched]_vars

\* A user who waits alone has signalled interest again: the body has run on
\* the topic that lists only that user and the commit is due.
C29_SignalledAgain ==
    \E u \in Users :
        /\ tx[u].pc = "commit"
        /\ tx[u].plan = "noop"
        /\ ~tx[u].stale
        /\ topics[tx[u].topic].interestedUsers = <<u>>

\* C30: interestedUsers of a topic holds at most one user in every reachable
\* state, and so does every read a transaction body runs on; hence no body
\* pairs a caller who is already listed with another waiting user, and none
\* finds the caller as the first waiting user without finding them listed.
C30_AtMostOneWaits ==
    /\ \A t \in TopicIds : Len(topics[t].interestedUsers) <= 1
    /\ \A u \in Users :
           tx[u].pc \in {"body", "commit"} =>
               /\ Len(tx[u].read.interestedUsers) <= 1
               /\ tx[u].plan = "pair" => ~Includes(tx[u].read.interestedUsers, u)

\* Two users signalled interest on a topic nobody waited on, at the same time:
\* one waits, the other's commit to wait as well is refused.
C30_SecondWaiterRefused ==
    \E t \in TopicIds, u \in Users :
        /\ Len(topics[t].interestedUsers) = 1
        /\ ~Includes(topics[t].interestedUsers, u)
        /\ tx[u].pc = "commit" /\ tx[u].topic = t
        /\ tx[u].plan = "wait" /\ tx[u].stale

\* ------------------------------------------------------------------ exits

\* C31: in every reachable state with status active neither participant has
\* hasExited = true, and no step sets a stored hasExited back to false.
C31_ExitConcludes ==
    /\ [](\A r \in Sessions :
            rooms[r].status = "active" =>
                \A p \in DOMAIN rooms[r].participantInfo :
                    ~rooms[r].participantInfo[p].hasExited)
    /\ [][\A r \in Sessions : \A p \in DOMAIN rooms[r].participantInfo :
            rooms[r].participantInfo[p].hasExited
                => rooms'[r].participantInfo[p].hasExited]_vars

\* One participant has exited a session in which messages were exchanged, and
\* the other, who has not, has written to it since: the turn is with the one
\* who left.
C31_ExitedAndWrittenTo ==
    \E r \in Sessions :
        /\ rooms[r].status # "active"
        /\ Len(messages[r]) >= 2
        /\ rooms[r].participantInfo[rooms[r].turn].hasExited
        /\ \E p \in DOMAIN rooms[r].participantInfo :
               ~rooms[r].participantInfo[p].hasExited

\* C32: in every reachable state with status concluded_word_limit both
\* participants have wordsUsed = 2000 and neither has exited.
C32_WordLimitMeansBothAtLimit ==
    \A r \in Sessions :
        rooms[r].status = "concluded_word_limit" =>
            \A p \in DOMAIN rooms[r].participantInfo :
                /\ rooms[r].participantInfo[p].wordsUsed = MAX_WORDS_PER_DEBATE_TOTAL
                /\ ~rooms[r].participantInfo[p].hasExited

\* ------------------------------------------------------------ alternation

\* The messages of session r that participants sent, in commit order.
ParticipantLog(r) ==
    LET OfUser(m) == m.senderId \in Users
    IN  SelectSeq(messages[r], OfUser)

\* C33: in the commit order of a session's messages of participants no two
\* consecutive messages have the same senderId.
C33_MessagesAlternate ==
    \A r \in RoomIds :
        LET log == ParticipantLog(r)
        IN  \A i \in 1..(Len(log) - 1) : log[i].senderId # log[i + 1].senderId

\* --------------------------------------------------------------- progress

\* C34: in every reachable state with status active the participant who holds
\* the turn has wordsUsed < 2000.
C34_TurnHolderHasWords ==
    \A r \in Sessions :
        (rooms[r].status = "active" /\ rooms[r].turn \in DOMAIN rooms[r].participantInfo)
            => rooms[r].participantInfo[rooms[r].turn].wordsUsed
                   < MAX_WORDS_PER_DEBATE_TOTAL

\* ------------------------------------------------------- join navigation

\* C35: the active debate room id of a client always names a session that
\* was committed in the store.
C35_ActiveRoomIsCommitted ==
    \A u \in Users :
        activeDebateRoomId[u] # 0 => rooms[activeDebateRoomId[u]].exists
====
